---- MODULE Spec2Model ----
(***************************************************************************)
(* Storyboard-to-video pipeline of the VideoProducer component             *)
(* (src/components/VideoProducer.tsx) and of the video service it calls    *)
(* (src/unnamed/part_005, imported as services/videoGeminiService).        *)
(*                                                                         *)
(* One action is one uninterrupted stretch of JavaScript: an event handler *)
(* up to its first await, or the continuation that runs when an awaited    *)
(* external call settles up to the next await.  React state is the state   *)
(* after the queued updaters of that stretch have been applied in order.   *)
(*                                                                         *)
(* Absent JavaScript values (undefined / null) are the empty tuple <<>>.   *)
(* Images, blob URLs and scene ids are opaque tuples.  Durations returned  *)
(* by the decomposition service are JSON numbers, modelled in tenths of a  *)
(* second (34 is 3.4); the durations stored in scenes are whole seconds.   *)
(*                                                                         *)
(* Spec follows the import dialogue, the build and the video jobs from the *)
(* start.  The other specifications follow one part on its own, from a     *)
(* state the component reaches: SpecRunner, SpecRunnerLive and SpecPolling *)
(* the video jobs, SpecRegen the frame regenerations, SpecStory the calls  *)
(* inside generateStoryboardFromPages, and SpecDuration, SpecPageIndex and *)
(* SpecCompose one pure function each.                                     *)
(***************************************************************************)
EXTENDS Integers, Sequences, FiniteSets, TLC

\* ------------------------------------------------------------------ bounds
MaxBuilds == 1
MaxScenes == 2
MaxRuns == 2
MaxRegens == 2
\* number of awaited external calls that settle in one execution
MaxTime == 6
\* largest raw duration, in tenths of a second, tried on its own
MaxRawDuration == 130
\* largest page index the decomposition service answers with, and the
\* longest page list, tried on their own
MaxRawIndex == 9
MaxProbePages == 5
\* number of polls a video job has behind it when it is followed from the
\* middle of its polling loop
MaxEarlierPolls == 4
\* number of usage records followed in the usage ledger on its own
MaxUsage == 4

\* -------------------------------------------------------------- constants
Absent == <<>>

\* an absent text field; the component treats undefined and "" alike
\* (selectedScene.videoGenerationProgress || "Generating video...")
NoText == ""

\* the raw duration (tenths of a second) the decomposition service returns
\* for its k-th beat: 3.4 s for odd beats, 12 s for even ones
RawDurationOf(k) == IF k % 2 = 1 THEN 34 ELSE 120

\* values an external call can reject with: an Error carrying a message, or
\* a thrown value that is not an Error
ExternalFailures ==
    { [isError |-> TRUE, message |-> "network error"],
      [isError |-> FALSE, message |-> ""] }

MkError(msg) == [isError |-> TRUE, message |-> msg]

\* mutant: the message is read without the instanceof test
ErrorMessage_NoInstanceTest(e, fallback) == e.message

\* error instanceof Error ? error.message : <fallback>
ErrorMessage(e, fallback) == IF e.isError THEN e.message ELSE fallback

VARIABLES showImportModal, isGenerating, importedPages, scenes,
          selectedSceneId, builds, runs, alerts, now, probe,
          regenState, regeneratingFrame, regens, storyCall, usageHistory,
          totalCostUSD

vars == <<showImportModal, isGenerating, importedPages, scenes,
          selectedSceneId, builds, runs, alerts, now, probe,
          regenState, regeneratingFrame, regens, storyCall, usageHistory,
          totalCostUSD>>

\* ----------------------------------------------- videoGeminiService (pure)

\* Math.round on a value given in tenths: the nearest integer, halves up
MathRound(tenths) == (tenths + 5) \div 10

Min(a, b) == IF a < b THEN a ELSE b

\* duration: Math.min(Math.round(panel.duration), 10)
EnrichDuration(raw) == Min(MathRound(raw), 10)

\* the character roster the component was given (props.characters): a
\* described character and one without description
characters ==
    << [name |-> "Ann", description |-> "a pilot"],
       [name |-> "Bo", description |-> ""] >>

\* the names the decomposition service lists for its k-th beat; the service
\* is free to name somebody who is not in the roster
CharactersOf(k) == IF k % 2 = 1 THEN <<"Ann">> ELSE <<"Bo", "Zed">>

\* what recommendVideoModel resolves with for the k-th beat: a parsed
\* recommendation for odd beats, its fallback after a parse failure for even
\* ones
DefaultRecommendation ==
    [model |-> "seedance", reasoning |-> "Default recommendation due to an error."]

RecommendationOf(k) ==
    IF k % 2 = 1
      THEN [model |-> "veo", reasoning |-> "The scene has dialogue."]
      ELSE DefaultRecommendation

\* { ...panel, duration: Math.min(Math.round(panel.duration), 10),
\*   recommendedModel: model, reasoning: reasoning }
EnrichPanel(panel, rec) ==
    [sceneDescription |-> panel.sceneDescription,
     narrative |-> panel.narrative,
     duration |-> EnrichDuration(panel.duration),
     charactersInScene |-> panel.charactersInScene,
     sourcePageIndex |-> panel.sourcePageIndex,
     recommendedModel |-> rec.model,
     reasoning |-> rec.reasoning]

\* the panels generateStoryboardFromPages returns for a parsed service
\* result: every field kept, the duration rounded and capped, the
\* recommendation added
EnrichPanels(panels) ==
    [k \in DOMAIN panels |-> EnrichPanel(panels[k], RecommendationOf(k))]

\* the raw panel lists the decomposition service can answer with; the k-th
\* beat carries its own description and narrative and is taken from the
\* first page
RawPanel(k) ==
    [sceneDescription |-> <<"desc", k>>, narrative |-> <<"narr", k>>,
     duration |-> RawDurationOf(k), charactersInScene |-> CharactersOf(k),
     sourcePageIndex |-> 0]

RawPanelLists == { [k \in 1..n |-> RawPanel(k)] : n \in 0..MaxScenes }

\* allCharacters.find(c => c.name === charName)?.description || 'No description'
DescriptionOf(charName, allCharacters) ==
    LET hits == {j \in DOMAIN allCharacters : allCharacters[j].name = charName}
    IN IF hits = {} THEN "No description"
       ELSE LET first == CHOOSE j \in hits : \A h \in hits : j <= h
            IN IF allCharacters[first].description = ""
                 THEN "No description"
                 ELSE allCharacters[first].description

\* one "- character: <name>, <description>" line per name of the scene
getCharacterAnchors(scene, allCharacters) ==
    [j \in DOMAIN scene.charactersInScene |->
        <<"- character: ", scene.charactersInScene[j], ", ",
          DescriptionOf(scene.charactersInScene[j], allCharacters)>>]

\* the prompt templates, kept as the tuple of the values they interpolate
generateSeedancePrompt(scene, allCharacters) ==
    <<"seedance", scene.sourcePageIndex + 1, scene.duration,
      getCharacterAnchors(scene, allCharacters),
      scene.sceneDescription, scene.narrative>>

generateHailuoPrompt(scene, allCharacters) ==
    <<"hailuo", scene.sceneDescription, scene.duration, scene.narrative>>

\* mutant: the prompt carries the time at which it was composed
generateVeoPrompt_Stamped(scene, allCharacters) ==
    <<"veo", now, scene.sourcePageIndex + 1, scene.duration,
      scene.sceneDescription, scene.narrative>>

generateVeoPrompt(scene, allCharacters) ==
    <<"veo", scene.sourcePageIndex + 1, scene.duration,
      scene.sceneDescription, scene.narrative>>

generateKlingPrompt(scene, allCharacters) ==
    <<"kling", scene.duration, scene.charactersInScene,
      scene.sceneDescription, scene.narrative>>

\* generateAllModelPrompts: one prompt per backend, in the order
\* seedance, hailuo, veo, kling
generateAllModelPrompts(scene, allCharacters) ==
    << generateSeedancePrompt(scene, allCharacters),
       generateHailuoPrompt(scene, allCharacters),
       generateVeoPrompt(scene, allCharacters),
       generateKlingPrompt(scene, allCharacters) >>

VeoOf(prompts) == IF prompts = Absent THEN Absent ELSE prompts[3]

\* the usage records the service functions return: the task, the one
\* quantity the record carries with its unit (tokens, images or
\* videoSeconds) and costUSD, which is 0 as pricing is unknown there
createTextUsageRecord(task, totalTokens) ==
    [task |-> task, unit |-> "tokens", amount |-> totalTokens, costUSD |-> 0]

createImageUsageRecord(task, imageCount) ==
    [task |-> task, unit |-> "images", amount |-> imageCount, costUSD |-> 0]

\* mutant: every video is recorded as one second long
createVideoUsageRecord_OneSecond(task, durationSeconds) ==
    [task |-> task, unit |-> "videoSeconds", amount |-> 1, costUSD |-> 0]

createVideoUsageRecord(task, durationSeconds) ==
    [task |-> task, unit |-> "videoSeconds", amount |-> durationSeconds,
     costUSD |-> 0]

\* a history updater closing over the list of the render that created the
\* callback (the callback is memoised with no dependencies)
addUsageRecord_StaleClosure(history, record) == <<record>>

\* addUsageRecord: setUsageHistory(prev => [newRecord, ...prev]); the id and
\* the timestamp the record is given are not kept
addUsageRecord(history, record) == <<record>> \o history

\* setTotalCostUSD(prev => prev + newRecord.costUSD)
AddCost(total, record) == total + record.costUSD

\* promptTokenCount + candidatesTokenCount the text service reports for the
\* decomposition response and for the recommendation response of beat k
DecomposeTokens == 5

TokensOf(k) == IF k % 2 = 1 THEN 3 ELSE 5

RECURSIVE RecommendTokens(_)
\* the tokens of the recommendation responses of beats 1..n
RecommendTokens(n) == IF n = 0 THEN 0 ELSE TokensOf(n) + RecommendTokens(n - 1)

\* the usage generateStoryboardFromPages returns for a parsed result: the
\* tokens of the decomposition response plus those of every recommendation
StoryboardUsage(raw) ==
    createTextUsageRecord("Storyboard Generation",
                          DecomposeTokens + RecommendTokens(Len(raw)))

\* ------------------------------------------------------ storyboard state

\* what Date.now() returns when the clock of the model shows t: a value of
\* constant width, as the millisecond timestamps of one session are
TimeOrigin == 1762365600

DateNow(t) == TimeOrigin + t

RECURSIVE ToDigits(_)
\* Number.prototype.toString: the decimal digits of a natural number
ToDigits(n) == IF n < 10 THEN <<n>> ELSE ToDigits(n \div 10) \o <<n % 10>>

\* mutant: the id is the timestamp alone
SceneId_NoIndex(t, i) == ToDigits(DateNow(t))

\* Date.now().toString() + i: the digits of the timestamp followed by the
\* digits of the index
SceneId(t, i) == ToDigits(DateNow(t)) \o ToDigits(i)

\* mutant: the placeholders are built from the last panel to the first
PlaceholderScenes_Reversed(panels, t) ==
    [k \in DOMAIN panels |->
        [id |-> SceneId(t, k - 1),
         description |-> panels[Len(panels) + 1 - k].sceneDescription,
         duration |-> panels[Len(panels) + 1 - k].duration,
         sourcePageIndex |-> panels[Len(panels) + 1 - k].sourcePageIndex,
         charactersInScene |-> panels[Len(panels) + 1 - k].charactersInScene,
         recommendedModel |-> panels[Len(panels) + 1 - k].recommendedModel,
         reasoning |-> panels[Len(panels) + 1 - k].reasoning,
         isLoading |-> TRUE,
         startFrame |-> Absent,
         endFrame |-> Absent,
         prompts |-> Absent,
         videoGenerationStatus |-> "idle",
         videoGenerationProgress |-> NoText,
         generatedVideoUrl |-> Absent]]

\* placeholderScenes: one scene per panel, in the order of the panels
PlaceholderScenes(panels, t) ==
    [k \in DOMAIN panels |->
        [id |-> SceneId(t, k - 1),
         description |-> panels[k].sceneDescription,
         duration |-> panels[k].duration,
         sourcePageIndex |-> panels[k].sourcePageIndex,
         charactersInScene |-> panels[k].charactersInScene,
         recommendedModel |-> panels[k].recommendedModel,
         reasoning |-> panels[k].reasoning,
         isLoading |-> TRUE,
         startFrame |-> Absent,
         endFrame |-> Absent,
         prompts |-> Absent,
         videoGenerationStatus |-> "idle",
         videoGenerationProgress |-> NoText,
         generatedVideoUrl |-> Absent]]

\* a single call of generateStoryboardFromPages observed on its own: the raw
\* duration the service returned for a one-beat result, and the duration of
\* the scene built from the returned panel
NoProbe == [raw |-> 0, applied |-> FALSE, stored |-> 0]

\* no call of generateStoryboardFromPages is followed step by step
NoCall == [pc |-> "none"]

\* the numbers of pages the import dialogue can hand over
PageCounts == {0, 1}

\* --------------------------------------------------------------- initial

Init ==
    /\ showImportModal = FALSE
    /\ isGenerating = FALSE
    /\ importedPages = 0
    /\ scenes = <<>>
    /\ selectedSceneId = Absent
    /\ builds = <<>>
    /\ runs = <<>>
    /\ alerts = <<>>
    /\ now = 0
    /\ probe = NoProbe
    /\ regenState = Absent
    /\ regeneratingFrame = Absent
    /\ regens = <<>>
    /\ storyCall = NoCall
    /\ usageHistory = <<>>
    /\ totalCostUSD = 0

\* addUsageRecord(record): both updaters are queued by the one call and
\* applied in order
RecordUsage(record) ==
    /\ usageHistory' = addUsageRecord(usageHistory, record)
    /\ totalCostUSD' = AddCost(totalCostUSD, record)

\* an awaited external call settles: the clock read by Date.now() has
\* moved on
Tick ==
    /\ now < MaxTime
    /\ now' = now + 1

\* ------------------------------------------------------- import dialogue

\* the "Create Video from Webtoon" button, rendered while the storyboard
\* is empty
OpenImportModal ==
    /\ Len(scenes) = 0
    /\ ~showImportModal
    /\ showImportModal' = TRUE
    /\ UNCHANGED <<isGenerating, importedPages, scenes, selectedSceneId,
                   builds, runs, alerts, now, probe,
                   regenState, regeneratingFrame, regens, storyCall, usageHistory,
                   totalCostUSD>>

\* ImportSourceModal onClose
CloseImportModal ==
    /\ showImportModal
    /\ showImportModal' = FALSE
    /\ UNCHANGED <<isGenerating, importedPages, scenes, selectedSceneId,
                   builds, runs, alerts, now, probe,
                   regenState, regeneratingFrame, regens, storyCall, usageHistory,
                   totalCostUSD>>

\* ------------------------------------------------ handleGenerateStoryboard

NewBuild ==
    [pc |-> "decompose", panels |-> <<>>, ids |-> <<>>, i |-> 0,
     startFrame |-> Absent, allPrompts |-> Absent, endFrameArgs |-> Absent,
     published |-> FALSE, frameCalls |-> 0, failed |-> "no"]

\* the handler up to the await of generateStoryboardFromPages
StartBuild(numPages) ==
    /\ showImportModal
    /\ Len(builds) < MaxBuilds
    /\ numPages # 0
    /\ importedPages' = numPages
    /\ showImportModal' = FALSE
    /\ isGenerating' = TRUE
    /\ scenes' = <<>>
    /\ selectedSceneId' = Absent
    /\ builds' = Append(builds, NewBuild)
    /\ UNCHANGED <<runs, alerts, now, probe,
                   regenState, regeneratingFrame, regens, storyCall, usageHistory,
                   totalCostUSD>>

\* catch (error) { alert(...); setScenes([]); } finally { setIsGenerating(false) }
BuildCatchScenes(ss) == <<>>

\* mutant: the failure is only logged to the console
BuildAlert_Silent(as, e) == as

\* alert(`Storyboard Generation Failed: ${...}`)
BuildAlert(as, e) ==
    Append(as, <<"Storyboard Generation Failed", ErrorMessage(e, "Unknown Error")>>)

BuildCatch(b, e, stage) ==
    /\ alerts' = BuildAlert(alerts, e)
    /\ scenes' = BuildCatchScenes(scenes)
    /\ isGenerating' = FALSE
    /\ builds' = [builds EXCEPT ![b].pc = "done", ![b].failed = stage]
    /\ Tick
    /\ UNCHANGED <<showImportModal, importedPages, selectedSceneId, runs, probe,
                   regenState, regeneratingFrame, regens, storyCall, usageHistory,
                   totalCostUSD>>

\* mutant: the end-frame call of the stage is issued together with its
\* start-frame call
BeginStage_Eager(bs, b, i) ==
    [bs EXCEPT ![b].pc = "startFrame", ![b].i = i,
               ![b].frameCalls = @ + 2, ![b].startFrame = Absent,
               ![b].allPrompts = Absent, ![b].endFrameArgs = Absent]

\* the loop body up to its first await: Promise.all of generateVideoFrame
\* and generateAllModelPrompts for panel i (0-based)
BeginStage(bs, b, i) ==
    [bs EXCEPT ![b].pc = "startFrame", ![b].i = i,
               ![b].frameCalls = @ + 1, ![b].startFrame = Absent,
               ![b].allPrompts = Absent, ![b].endFrameArgs = Absent]

\* after the loop: select the first scene, then finally
FinishBuild(bs, b) == [bs EXCEPT ![b].pc = "done"]

\* generateStoryboardFromPages rejected
DecomposeFail(b, e) ==
    /\ b \in DOMAIN builds
    /\ builds[b].pc = "decompose"
    /\ BuildCatch(b, e, "decompose")

\* generateStoryboardFromPages resolved with the enriched panels
DecomposeReturn(b, raw) ==
    /\ b \in DOMAIN builds
    /\ builds[b].pc = "decompose"
    /\ Tick
    /\ LET panels == EnrichPanels(raw)
           placeholderScenes == PlaceholderScenes(panels, now')
           ids == [k \in DOMAIN panels |-> placeholderScenes[k].id]
           pub == [builds EXCEPT ![b].panels = panels, ![b].ids = ids,
                                 ![b].published = TRUE]
       IN /\ scenes' = placeholderScenes
          /\ IF Len(panels) > 0
               THEN /\ builds' = BeginStage(pub, b, 0)
                    /\ UNCHANGED isGenerating
               ELSE /\ builds' = FinishBuild(pub, b)
                    /\ isGenerating' = FALSE
    /\ RecordUsage(StoryboardUsage(raw))
    /\ UNCHANGED <<showImportModal, importedPages, selectedSceneId, runs,
                   alerts, probe,
                   regenState, regeneratingFrame, regens, storyCall>>

\* generateVideoFrame rejected
StartFrameFail(b, e) ==
    /\ b \in DOMAIN builds
    /\ builds[b].pc = "startFrame"
    /\ BuildCatch(b, e, "frame")

\* mutant: the end-frame call does not wait for the start frame
EndFrameArgs_NoFrame(startFrame, panel) ==
    <<Absent, panel.narrative, panel.duration>>

\* generateWebtoonEndFrame(startFrame, panel.narrative, panel.duration)
EndFrameArgs(startFrame, panel) ==
    <<startFrame, panel.narrative, panel.duration>>

\* generateVideoFrame resolved, so Promise.all resolves with its frame and
\* the prompts generateAllModelPrompts returned; generateWebtoonEndFrame is
\* called with that frame
StartFrameReturn(b) ==
    /\ b \in DOMAIN builds
    /\ builds[b].pc = "startFrame"
    /\ LET panel == builds[b].panels[builds[b].i + 1]
           startFrame == <<"start", b, builds[b].i>>
       IN builds' = [builds EXCEPT
                        ![b].pc = "endFrame",
                        ![b].startFrame = startFrame,
                        ![b].allPrompts = generateAllModelPrompts(panel, characters),
                        ![b].endFrameArgs = EndFrameArgs(startFrame, panel),
                        ![b].frameCalls = @ + 1]
    /\ RecordUsage(createImageUsageRecord("Generate Video Frame", 1))
    /\ Tick
    /\ UNCHANGED <<showImportModal, isGenerating, importedPages, scenes,
                   selectedSceneId, runs, alerts, probe,
                   regenState, regeneratingFrame, regens, storyCall>>

\* generateWebtoonEndFrame rejected
EndFrameFail(b, e) ==
    /\ b \in DOMAIN builds
    /\ builds[b].pc = "endFrame"
    /\ BuildCatch(b, e, "frame")

\* mutant: the patch stores the frames and prompts but leaves the scene
\* marked as loading
ReadyPatch_StillLoading(s, startFrame, endFrame, allPrompts) ==
    [s EXCEPT !.startFrame = startFrame, !.endFrame = endFrame,
              !.prompts = allPrompts]

\* { ...s, startFrame, endFrame, prompts: allPrompts, isLoading: false }
ReadyPatch(s, startFrame, endFrame, allPrompts) ==
    [s EXCEPT !.startFrame = startFrame, !.endFrame = endFrame,
              !.prompts = allPrompts, !.isLoading = FALSE]

\* mutant: the patch goes to the last scene that is still loading
SetReady_Last(ss, id, startFrame, endFrame, allPrompts) ==
    [k \in DOMAIN ss |->
        IF ss[k].isLoading /\ (\A j \in DOMAIN ss : j > k => ~ss[j].isLoading)
          THEN ReadyPatch(ss[k], startFrame, endFrame, allPrompts)
          ELSE ss[k]]

\* setScenes(prevScenes => prevScenes.map(s => s.id === id ? {...} : s))
SetReady(ss, id, startFrame, endFrame, allPrompts) ==
    [k \in DOMAIN ss |->
        IF ss[k].id = id
          THEN ReadyPatch(ss[k], startFrame, endFrame, allPrompts)
          ELSE ss[k]]

\* generateWebtoonEndFrame resolved: patch the scene, go on with the next
\* panel or finish
EndFrameReturn(b) ==
    /\ b \in DOMAIN builds
    /\ builds[b].pc = "endFrame"
    /\ LET i == builds[b].i
           endFrame == <<"end", b, i>>
       IN /\ scenes' = SetReady(scenes, builds[b].ids[i + 1],
                                builds[b].startFrame, endFrame,
                                builds[b].allPrompts)
          /\ IF i + 1 < Len(builds[b].panels)
               THEN /\ builds' = BeginStage(builds, b, i + 1)
                    /\ UNCHANGED <<isGenerating, selectedSceneId>>
               ELSE /\ builds' = FinishBuild(builds, b)
                    /\ selectedSceneId' = builds[b].ids[1]
                    /\ isGenerating' = FALSE
    /\ RecordUsage(createImageUsageRecord("Generate End Frame", 1))
    /\ Tick
    /\ UNCHANGED <<showImportModal, importedPages, runs, alerts, probe,
                   regenState, regeneratingFrame, regens, storyCall>>

\* onClick={() => !scene.isLoading && setSelectedSceneId(scene.id)}
SelectScene(k) ==
    /\ k \in DOMAIN scenes
    /\ ~scenes[k].isLoading
    /\ selectedSceneId # scenes[k].id
    /\ selectedSceneId' = scenes[k].id
    /\ UNCHANGED <<showImportModal, isGenerating, importedPages, scenes,
                   builds, runs, alerts, now, probe,
                   regenState, regeneratingFrame, regens, storyCall, usageHistory,
                   totalCostUSD>>


\* --------------------------------------------------- generateVeoVideo data

progressMessages ==
    << "Casting characters...", "Setting up the scene...",
       "Director is shouting 'Action!'...", "Rendering photons...",
       "Compositing layers...", "Adding final touches..." >>

\* what the video service reports for an operation: not done yet, done with
\* an error, done without a download link, done with a download link
Operations == {"running", "failed", "nolink", "ok"}

\* requestPayload of generateVeoVideo: the model, the prompt, one video, and
\* the start frame as image when there is one; the duration parameter is
\* read only by the usage record of the return statement
VeoRequestPayload(prompt, startFrame, duration) ==
    IF startFrame = Absent
      THEN [model |-> "veo-2.0-generate-001", prompt |-> prompt,
            config |-> [numberOfVideos |-> 1]]
      ELSE [model |-> "veo-2.0-generate-001", prompt |-> prompt,
            config |-> [numberOfVideos |-> 1],
            image |-> [imageBytes |-> startFrame, mimeType |-> "image/png"]]

\* ---------------------------------------------------- handleCreateVeoVideo

\* mutant: the run button is rendered whatever the status
CanRun_NoGate(s) == TRUE

\* mutant: the run button is hidden only while a job is pending
CanRun_NotPending(s) == s.videoGenerationStatus # "pending"

\* the Veo run button is rendered for the selected scene only while
\* videoGenerationStatus is idle or error
CanRun(s) == s.videoGenerationStatus \in {"idle", "error"}

PendingPatch(s) ==
    [s EXCEPT !.videoGenerationStatus = "pending",
              !.videoGenerationProgress = "Initializing..."]

ProgressPatch(s, progress) == [s EXCEPT !.videoGenerationProgress = progress]

\* mutant: the video URL is stored but the status is left as it was
DonePatch_UrlOnly(s, videoUrl) == [s EXCEPT !.generatedVideoUrl = videoUrl]

DonePatch(s, videoUrl) ==
    [s EXCEPT !.videoGenerationStatus = "done", !.generatedVideoUrl = videoUrl]

\* mutant: a failed job puts the scene back to idle
ErrorPatch_ToIdle(s, e) ==
    [s EXCEPT !.videoGenerationStatus = "idle",
              !.videoGenerationProgress = ErrorMessage(e, "Unknown error")]

ErrorPatch(s, e) ==
    [s EXCEPT !.videoGenerationStatus = "error",
              !.videoGenerationProgress = ErrorMessage(e, "Unknown error")]

\* setScenes(prev => prev.map(s => s.id === scene.id ? {...} : s)), for
\* each of the handler's four patches
SetPending(ss, id) ==
    [k \in DOMAIN ss |-> IF ss[k].id = id THEN PendingPatch(ss[k]) ELSE ss[k]]

\* mutant: the progress text is written to every scene
OnProgress_EveryScene(ss, id, progress) ==
    [k \in DOMAIN ss |-> ProgressPatch(ss[k], progress)]

\* onProgressUpdate as passed by the handler
OnProgress(ss, id, progress) ==
    [k \in DOMAIN ss |->
        IF ss[k].id = id THEN ProgressPatch(ss[k], progress) ELSE ss[k]]

SetDone(ss, id, videoUrl) ==
    [k \in DOMAIN ss |->
        IF ss[k].id = id THEN DonePatch(ss[k], videoUrl) ELSE ss[k]]

SetError(ss, id, e) ==
    [k \in DOMAIN ss |-> IF ss[k].id = id THEN ErrorPatch(ss[k], e) ELSE ss[k]]

\* mutant: the job is submitted before the try block is entered
TryCovers_SubmitOutside(pc) == pc \in {"poll", "download"}

\* the awaits of the handler that lie inside its try block
TryCovers(pc) == pc \in {"submit", "poll", "download"}

Settled == {"done", "error"}

\* click on the Veo run button of the selected scene: the handler and
\* generateVeoVideo up to the await of ai.models.generateVideos
Run(k) ==
    /\ k \in DOMAIN scenes
    /\ scenes[k].id = selectedSceneId
    /\ CanRun(scenes[k])
    /\ Len(runs) < MaxRuns
    /\ LET scene == scenes[k]
           veoPrompt == VeoOf(scene.prompts)
       IN IF veoPrompt = Absent \/ scene.startFrame = Absent
            THEN UNCHANGED <<scenes, runs>>
            ELSE /\ scenes' = OnProgress(SetPending(scenes, scene.id),
                                         scene.id, "Starting video generation...")
                 /\ runs' = Append(runs,
                       [sceneId |-> scene.id, prompt |-> veoPrompt,
                        startFrame |-> scene.startFrame,
                        duration |-> scene.duration,
                        request |-> VeoRequestPayload(veoPrompt, scene.startFrame,
                                                      scene.duration),
                        pc |-> "submit", pollCount |-> 0, polls |-> <<>>,
                        updates |-> <<"Starting video generation...">>,
                        failure |-> Absent, outcome |-> "running"])
    /\ UNCHANGED <<showImportModal, isGenerating, importedPages,
                   selectedSceneId, builds, alerts, now, probe,
                   regenState, regeneratingFrame, regens, storyCall, usageHistory,
                   totalCostUSD>>

\* an exception raised at one of the handler's awaits, the storyboard being
\* ss: the catch block when the await lies inside the try, otherwise the
\* rejection leaves the handler
RunThrow(r, e, ss, rs) ==
    IF TryCovers(runs[r].pc)
      THEN /\ scenes' = SetError(ss, runs[r].sceneId, e)
           /\ runs' = [rs EXCEPT ![r].pc = "error", ![r].failure = <<e>>,
                                 ![r].outcome = "returned"]
      ELSE /\ scenes' = ss
           /\ runs' = [rs EXCEPT ![r].pc = "error", ![r].failure = <<e>>,
                                 ![r].outcome = "threw"]

\* mutant: the same message is shown before every poll
RotatingMessage_Fixed(pollCount) == progressMessages[1]

\* mutant: after the last message of the cycle the same message is repeated
RotatingMessage_NoWrap(pollCount) ==
    progressMessages[Min(pollCount, Len(progressMessages) - 1) + 1]

\* progressMessages[pollCount % progressMessages.length]
RotatingMessage(pollCount) ==
    progressMessages[(pollCount % Len(progressMessages)) + 1]

\* generateVeoVideo from the test of the while loop on, for the operation
\* just received, the current poll count and the poll results so far; every
\* message handed to onProgressUpdate is kept in the run's updates
AfterOperation(r, op, pollCount, polls) ==
    LET id == runs[r].sceneId
        fetching == OnProgress(scenes, id, "Fetching video...")
        rs == [runs EXCEPT ![r].pollCount = pollCount, ![r].polls = polls]
        fetched == [rs EXCEPT ![r].updates = Append(@, "Fetching video...")]
    IN CASE op = "running" ->
              /\ scenes' = OnProgress(scenes, id, RotatingMessage(pollCount))
              /\ runs' = [rs EXCEPT ![r].pc = "poll",
                                    ![r].updates = Append(@, RotatingMessage(pollCount))]
         [] op = "failed" ->
              \* thrown before "Fetching video..." is emitted
              RunThrow(r, MkError("Video generation failed: quota exceeded"),
                       scenes, rs)
         [] op = "nolink" ->
              \* thrown after "Fetching video..." was emitted
              RunThrow(r, MkError("Video generation completed, but no download link was provided."),
                       fetching, fetched)
         [] OTHER ->
              /\ scenes' = fetching
              /\ runs' = [fetched EXCEPT ![r].pc = "download"]

\* ai.models.generateVideos rejected
SubmitFail(r, e) ==
    /\ r \in DOMAIN runs
    /\ runs[r].pc = "submit"
    /\ RunThrow(r, e, scenes, runs)
    /\ Tick
    /\ UNCHANGED <<showImportModal, isGenerating, importedPages,
                   selectedSceneId, builds, alerts, probe,
                   regenState, regeneratingFrame, regens, storyCall, usageHistory,
                   totalCostUSD>>

\* ai.models.generateVideos resolved with an operation
SubmitReturn(r, op) ==
    /\ r \in DOMAIN runs
    /\ runs[r].pc = "submit"
    /\ AfterOperation(r, op, 0, <<>>)
    /\ Tick
    /\ UNCHANGED <<showImportModal, isGenerating, importedPages,
                   selectedSceneId, builds, alerts, probe,
                   regenState, regeneratingFrame, regens, storyCall, usageHistory,
                   totalCostUSD>>

\* the 10 s timer fired and ai.operations.getVideosOperation rejected
PollFail(r, e) ==
    /\ r \in DOMAIN runs
    /\ runs[r].pc = "poll"
    /\ RunThrow(r, e, scenes, runs)
    /\ Tick
    /\ UNCHANGED <<showImportModal, isGenerating, importedPages,
                   selectedSceneId, builds, alerts, probe,
                   regenState, regeneratingFrame, regens, storyCall, usageHistory,
                   totalCostUSD>>

\* the 10 s timer fired and ai.operations.getVideosOperation resolved
PollReturn(r, op) ==
    /\ r \in DOMAIN runs
    /\ runs[r].pc = "poll"
    /\ AfterOperation(r, op, runs[r].pollCount + 1, Append(runs[r].polls, op))
    /\ Tick
    /\ UNCHANGED <<showImportModal, isGenerating, importedPages,
                   selectedSceneId, builds, alerts, probe,
                   regenState, regeneratingFrame, regens, storyCall, usageHistory,
                   totalCostUSD>>

\* fetch of the download link rejected, answered with a status that is not
\* ok, or response.blob() rejected
DownloadFail(r, e) ==
    /\ r \in DOMAIN runs
    /\ runs[r].pc = "download"
    /\ RunThrow(r, e, scenes, runs)
    /\ Tick
    /\ UNCHANGED <<showImportModal, isGenerating, importedPages,
                   selectedSceneId, builds, alerts, probe,
                   regenState, regeneratingFrame, regens, storyCall, usageHistory,
                   totalCostUSD>>

\* the video was downloaded: generateVeoVideo returns the object URL and the
\* handler marks the scene done
DownloadReturn(r) ==
    /\ r \in DOMAIN runs
    /\ runs[r].pc = "download"
    /\ scenes' = SetDone(scenes, runs[r].sceneId, <<"blob", r>>)
    /\ runs' = [runs EXCEPT ![r].pc = "done", ![r].outcome = "returned"]
    /\ RecordUsage(createVideoUsageRecord("Generate VEO Video",
                                         runs[r].duration))
    /\ Tick
    /\ UNCHANGED <<showImportModal, isGenerating, importedPages,
                   selectedSceneId, builds, alerts, probe,
                   regenState, regeneratingFrame, regens, storyCall>>

\* --------------------------------------------------- handleRegenerateFrame

FrameTypes == {"start", "end"}

\* frameType === 'start' ? scene.startFrame : scene.endFrame
FrameOf(s, frameType) == IF frameType = "start" THEN s.startFrame ELSE s.endFrame

\* the redo button of a frame of the selected scene, rendered with the
\* other scene details while the status is idle or error and while that
\* frame is not the one marked as regenerating
OpenRegenModal(k, frameType) ==
    /\ k \in DOMAIN scenes
    /\ scenes[k].id = selectedSceneId
    /\ CanRun(scenes[k])
    /\ regeneratingFrame # <<scenes[k].id, frameType>>
    /\ regenState # <<scenes[k].id, frameType>>
    /\ Len(regens) < MaxRegens
    /\ regenState' = <<scenes[k].id, frameType>>
    /\ UNCHANGED <<showImportModal, isGenerating, importedPages, scenes,
                   selectedSceneId, builds, runs, alerts, now, probe,
                   regeneratingFrame, regens, storyCall, usageHistory,
                   totalCostUSD>>

\* RegenerationModal onClose
CloseRegenModal ==
    /\ regenState # Absent
    /\ regenState' = Absent
    /\ UNCHANGED <<showImportModal, isGenerating, importedPages, scenes,
                   selectedSceneId, builds, runs, alerts, now, probe,
                   regeneratingFrame, regens, storyCall, usageHistory,
                   totalCostUSD>>

\* the Regenerate button of the modal: the handler and regenerateVideoFrame
\* up to the await of the image call; the edit instruction typed into the
\* modal only shapes the text sent to the image service
Regenerate ==
    /\ regenState # Absent
    /\ Len(regens) < MaxRegens
    /\ LET sceneId == regenState[1]
           frameType == regenState[2]
           found == {k \in DOMAIN scenes : scenes[k].id = sceneId}
       IN IF found = {} \/ (\A k \in found : FrameOf(scenes[k], frameType) = Absent)
            THEN UNCHANGED <<regenState, regeneratingFrame, regens, usageHistory,
                   totalCostUSD>>
            ELSE LET sceneToRegen == scenes[CHOOSE k \in found : \A j \in found : k <= j]
                 IN /\ regeneratingFrame' = <<sceneId, frameType>>
                    /\ regenState' = Absent
                    /\ regens' = Append(regens,
                          [sceneId |-> sceneId, frameType |-> frameType,
                           originalFrame |-> FrameOf(sceneToRegen, frameType),
                           pc |-> "call", failure |-> Absent])
    /\ UNCHANGED <<showImportModal, isGenerating, importedPages, scenes,
                   selectedSceneId, builds, runs, alerts, now, probe, storyCall, usageHistory,
                   totalCostUSD>>

\* mutant: the new image is written to both frames
FramePatch_Both(s, frameType, newFrame) ==
    [s EXCEPT !.startFrame = newFrame, !.endFrame = newFrame]

\* { ...s, [frameType === 'start' ? 'startFrame' : 'endFrame']: newFrame }
FramePatch(s, frameType, newFrame) ==
    IF frameType = "start"
      THEN [s EXCEPT !.startFrame = newFrame]
      ELSE [s EXCEPT !.endFrame = newFrame]

\* mutant: the patched scene is made from the scene as the handler saw
\* it when the build had just finished ({ ...sceneToRegen, frame }), not
\* from the current one
SetFrame_Stale(ss, id, frameType, newFrame) ==
    [k \in DOMAIN ss |->
        IF ss[k].id = id
          THEN FramePatch([ss[k] EXCEPT !.startFrame = <<"start", 1, k - 1>>,
                                        !.endFrame = <<"end", 1, k - 1>>],
                          frameType, newFrame)
          ELSE ss[k]]

\* setScenes(prev => prev.map(s => s.id === sceneId ? {...} : s))
SetFrame(ss, id, frameType, newFrame) ==
    [k \in DOMAIN ss |->
        IF ss[k].id = id THEN FramePatch(ss[k], frameType, newFrame) ELSE ss[k]]

\* regenerateVideoFrame resolved with a new image
RegenReturn(g) ==
    /\ g \in DOMAIN regens
    /\ regens[g].pc = "call"
    /\ scenes' = SetFrame(scenes, regens[g].sceneId, regens[g].frameType,
                          <<"regen", g>>)
    /\ regeneratingFrame' = Absent
    /\ regens' = [regens EXCEPT ![g].pc = "done"]
    /\ RecordUsage(createImageUsageRecord("Regenerate Frame", 1))
    /\ Tick
    /\ UNCHANGED <<showImportModal, isGenerating, importedPages,
                   selectedSceneId, builds, runs, alerts, probe,
                   regenState, storyCall>>

\* mutant: the failure of a regeneration is not shown
RegenAlert_Silent(as, e) == as

\* alert(`Frame regeneration failed: ${...}`)
RegenAlert(as, e) ==
    Append(as, <<"Frame regeneration failed", ErrorMessage(e, "Unknown Error")>>)

\* regenerateVideoFrame rejected: catch, then finally
RegenFail(g, e) ==
    /\ g \in DOMAIN regens
    /\ regens[g].pc = "call"
    /\ alerts' = RegenAlert(alerts, e)
    /\ regeneratingFrame' = Absent
    /\ regens' = [regens EXCEPT ![g].pc = "error", ![g].failure = <<e>>]
    /\ Tick
    /\ UNCHANGED <<showImportModal, isGenerating, importedPages, scenes,
                   selectedSceneId, builds, runs, probe,
                   regenState, storyCall, usageHistory,
                   totalCostUSD>>

\* what each awaited call can reject with
DecomposeFailures ==
    ExternalFailures \cup {MkError("Failed to get a valid storyboard from AI.")}

StartFrameFailures ==
    {MkError("AI did not return an image for the video frame.")}

EndFrameFailures ==
    {MkError("AI did not return an end frame for the webtoon scene.")}

SubmitFailures ==
    { MkError("generateVideos: network error"),
      [isError |-> FALSE, message |-> ""] }

PollFailures == {MkError("getVideosOperation: network error")}

DownloadFailures ==
    {MkError("fetch: network error"), MkError("Failed to download video: Forbidden")}

RegenFailures ==
    { MkError("AI did not return a regenerated image."),
      [isError |-> FALSE, message |-> ""] }

Next ==
    \/ OpenImportModal
    \/ CloseImportModal
    \/ \E n \in PageCounts : StartBuild(n)
    \/ \E b \in 1..MaxBuilds, e \in DecomposeFailures : DecomposeFail(b, e)
    \/ \E b \in 1..MaxBuilds, raw \in RawPanelLists : DecomposeReturn(b, raw)
    \/ \E b \in 1..MaxBuilds, e \in StartFrameFailures : StartFrameFail(b, e)
    \/ \E b \in 1..MaxBuilds : StartFrameReturn(b)
    \/ \E b \in 1..MaxBuilds, e \in EndFrameFailures : EndFrameFail(b, e)
    \/ \E b \in 1..MaxBuilds : EndFrameReturn(b)
    \/ \E k \in 1..MaxScenes : SelectScene(k)
    \/ \E k \in 1..MaxScenes : Run(k)
    \/ \E r \in 1..MaxRuns, e \in SubmitFailures : SubmitFail(r, e)
    \/ \E r \in 1..MaxRuns, op \in Operations : SubmitReturn(r, op)
    \/ \E r \in 1..MaxRuns, e \in PollFailures : PollFail(r, e)
    \/ \E r \in 1..MaxRuns, op \in Operations : PollReturn(r, op)
    \/ \E r \in 1..MaxRuns, e \in DownloadFailures : DownloadFail(r, e)
    \/ \E r \in 1..MaxRuns : DownloadReturn(r)

Spec == Init /\ [][Next]_vars

\* ------------------------------------------ work on a finished storyboard

\* the storyboard a build of n beats leaves when every call succeeded
ReadyStoryboard(n, t) ==
    LET panels == EnrichPanels([k \in 1..n |-> RawPanel(k)])
        placeholderScenes == PlaceholderScenes(panels, t)
    IN [k \in 1..n |->
          ReadyPatch(placeholderScenes[k], <<"start", 1, k - 1>>,
                     <<"end", 1, k - 1>>,
                     generateAllModelPrompts(panels[k], characters))]

\* the record of that build
FinishedBuild(n, t) ==
    LET panels == EnrichPanels([k \in 1..n |-> RawPanel(k)])
    IN [pc |-> "done", panels |-> panels,
        ids |-> [k \in 1..n |-> PlaceholderScenes(panels, t)[k].id],
        i |-> n - 1, startFrame |-> <<"start", 1, n - 1>>,
        allPrompts |-> generateAllModelPrompts(panels[n], characters),
        endFrameArgs |-> EndFrameArgs(<<"start", 1, n - 1>>, panels[n]),
        published |-> TRUE, frameCalls |-> 2 * n, failed |-> "no"]

RECURSIVE BuildUsage(_)
\* the usage history that build leaves: the storyboard record, then the two
\* frame records of every stage, the newest first
BuildUsage(n) ==
    IF n = 0
      THEN <<StoryboardUsage(<<>>)>>
      ELSE << createImageUsageRecord("Generate End Frame", 1),
              createImageUsageRecord("Generate Video Frame", 1) >>
           \o [BuildUsage(n - 1) EXCEPT
                 ![2 * n - 1] = StoryboardUsage([k \in 1..n |-> RawPanel(k)])]

\* the state right after a build of n beats has succeeded, the clock being
\* read from there on
ReadyState(n) ==
    /\ showImportModal = FALSE
    /\ isGenerating = FALSE
    /\ importedPages = 1
    /\ scenes = ReadyStoryboard(n, 0)
    /\ builds = <<FinishedBuild(n, 0)>>
    /\ selectedSceneId = ReadyStoryboard(n, 0)[1].id
    /\ runs = <<>>
    /\ alerts = <<>>
    /\ now = 0
    /\ probe = NoProbe
    /\ regenState = Absent
    /\ regeneratingFrame = Absent
    /\ regens = <<>>
    /\ storyCall = NoCall
    /\ usageHistory = BuildUsage(n)
    /\ totalCostUSD = 0

\* video jobs on the storyboard of a one-beat build
RunnerInit == ReadyState(1)

RunnerNext ==
    \/ \E k \in 1..MaxScenes : Run(k)
    \/ \E r \in 1..MaxRuns, e \in SubmitFailures : SubmitFail(r, e)
    \/ \E r \in 1..MaxRuns, op \in Operations : SubmitReturn(r, op)
    \/ \E r \in 1..MaxRuns, e \in PollFailures : PollFail(r, e)
    \/ \E r \in 1..MaxRuns, op \in Operations : PollReturn(r, op)
    \/ \E r \in 1..MaxRuns, e \in DownloadFailures : DownloadFail(r, e)
    \/ \E r \in 1..MaxRuns : DownloadReturn(r)

SpecRunner == RunnerInit /\ [][RunnerNext]_vars

\* the same video jobs when the video service reports completion after
\* finitely many polls and every awaited call settles: an answer that the
\* job is still running is given, and a job is started, only while the calls
\* that remain (the next poll and the download) can still settle
Settles(r) ==
    \/ \E e \in SubmitFailures : SubmitFail(r, e)
    \/ \E op \in Operations :
          (op = "running" => now + 3 <= MaxTime) /\ SubmitReturn(r, op)
    \/ \E e \in PollFailures : PollFail(r, e)
    \/ \E op \in Operations :
          (op = "running" => now + 3 <= MaxTime) /\ PollReturn(r, op)
    \/ \E e \in DownloadFailures : DownloadFail(r, e)
    \/ DownloadReturn(r)

RunnerLiveNext ==
    \/ \E k \in 1..MaxScenes : now + 2 <= MaxTime /\ Run(k)
    \/ \E r \in 1..MaxRuns : Settles(r)

SpecRunnerLive ==
    /\ RunnerInit
    /\ [][RunnerLiveNext]_vars
    /\ \A r \in 1..MaxRuns : WF_vars(Settles(r))

\* a video job on that storyboard that has been submitted and polled p
\* times, every answer so far saying that the job is still running
PolledRun(scene, p) ==
    [sceneId |-> scene.id, prompt |-> VeoOf(scene.prompts),
     startFrame |-> scene.startFrame, duration |-> scene.duration,
     request |-> VeoRequestPayload(VeoOf(scene.prompts), scene.startFrame,
                                   scene.duration),
     pc |-> "poll", pollCount |-> p, polls |-> [j \in 1..p |-> "running"],
     updates |-> <<"Starting video generation...">>
                    \o [j \in 1..(p + 1) |-> RotatingMessage(j - 1)],
     failure |-> Absent, outcome |-> "running"]

\* the state in which that job waits for the answer to its next poll, the
\* clock being read from there on
PollingState(p) ==
    /\ showImportModal = FALSE
    /\ isGenerating = FALSE
    /\ importedPages = 1
    /\ scenes = OnProgress(SetPending(ReadyStoryboard(1, 0),
                                       ReadyStoryboard(1, 0)[1].id),
                            ReadyStoryboard(1, 0)[1].id, RotatingMessage(p))
    /\ builds = <<FinishedBuild(1, 0)>>
    /\ selectedSceneId = ReadyStoryboard(1, 0)[1].id
    /\ runs = <<PolledRun(ReadyStoryboard(1, 0)[1], p)>>
    /\ alerts = <<>>
    /\ now = 0
    /\ probe = NoProbe
    /\ regenState = Absent
    /\ regeneratingFrame = Absent
    /\ regens = <<>>
    /\ storyCall = NoCall
    /\ usageHistory = BuildUsage(1)
    /\ totalCostUSD = 0

\* video jobs followed from the middle of a polling loop
PollingInit == \E p \in 0..MaxEarlierPolls : PollingState(p)

SpecPolling == PollingInit /\ [][RunnerNext]_vars

\* frame regenerations on the storyboard of a build of one or more beats
RegenInit == \E n \in 1..MaxScenes : ReadyState(n)

RegenNext ==
    \/ \E k \in 1..MaxScenes : SelectScene(k)
    \/ \E k \in 1..MaxScenes, frameType \in FrameTypes : OpenRegenModal(k, frameType)
    \/ CloseRegenModal
    \/ Regenerate
    \/ \E g \in 1..MaxRegens : RegenReturn(g)
    \/ \E g \in 1..MaxRegens, e \in RegenFailures : RegenFail(g, e)

SpecRegen == RegenInit /\ [][RegenNext]_vars

\* ------------------------------------- one decomposition result on its own

DurationInit ==
    /\ showImportModal = FALSE
    /\ isGenerating = FALSE
    /\ importedPages = 0
    /\ scenes = <<>>
    /\ selectedSceneId = Absent
    /\ builds = <<>>
    /\ runs = <<>>
    /\ alerts = <<>>
    /\ now = 0
    /\ \E raw \in 0..MaxRawDuration :
          probe = [raw |-> raw, applied |-> FALSE, stored |-> 0]
    /\ regenState = Absent
    /\ regeneratingFrame = Absent
    /\ regens = <<>>
    /\ storyCall = NoCall
    /\ usageHistory = <<>>
    /\ totalCostUSD = 0

\* generateStoryboardFromPages enriches the one panel and the handler builds
\* its placeholder scene
DurationStep ==
    /\ ~probe.applied
    /\ LET panels == EnrichPanels(<< [RawPanel(1) EXCEPT !.duration = probe.raw] >>)
       IN probe' = [probe EXCEPT !.applied = TRUE,
                                 !.stored = PlaceholderScenes(panels, 0)[1].duration]
    /\ UNCHANGED <<showImportModal, isGenerating, importedPages, scenes,
                   selectedSceneId, builds, runs, alerts, now,
                   regenState, regeneratingFrame, regens, storyCall, usageHistory,
                   totalCostUSD>>

DurationNext == DurationStep

SpecDuration == DurationInit /\ [][DurationNext]_vars

\* ------------------------------------------------------ derived notions

RunsOf(id) == {r \in DOMAIN runs : runs[r].sceneId = id}

ActiveRuns(id) == {r \in RunsOf(id) : runs[r].pc \notin Settled}

IsLastRun(r) == \A q \in RunsOf(runs[r].sceneId) : q <= r

AllowedStatusSteps ==
    { <<"idle", "pending">>, <<"pending", "done">>,
      <<"pending", "error">>, <<"error", "pending">> }

\* a Run was started in this step, for the scene at position k
RunStarted(k) ==
    /\ Len(runs') = Len(runs) + 1
    /\ k \in DOMAIN scenes
    /\ scenes[k].id = runs'[Len(runs')].sceneId

\* ------------------------------------------------------------------ C1

\* C1 (as stated): whenever a Run submits a job for a scene, that scene's
\* videoGenerationStatus was idle; a Run on any other status is rejected.
C1_RunOnlyFromIdle ==
    [][\A k \in 1..MaxScenes :
          RunStarted(k) => scenes[k].videoGenerationStatus = "idle"]_vars

\* C1 (amended): every scene has at most one active video job at any time,
\* and it has one exactly while its status is pending; a Run is started only
\* on an idle or an errored scene, never on a pending or done one.
C1_AtMostOneActiveJob ==
    \A k \in DOMAIN scenes :
        /\ Cardinality(ActiveRuns(scenes[k].id)) <= 1
        /\ (scenes[k].videoGenerationStatus = "pending")
              <=> (ActiveRuns(scenes[k].id) # {})

\* a second job runs on a scene whose first job ended in error
C1_Witness ==
    \E k \in DOMAIN scenes :
        /\ scenes[k].videoGenerationStatus = "pending"
        /\ \E r \in ActiveRuns(scenes[k].id), q \in RunsOf(scenes[k].id) :
              q < r /\ runs[q].pc = "error"

\* ------------------------------------------------------------------ C2

\* C2: once a Run on a scene has returned (and no later Run is under way),
\* the scene's status is done or error, never pending or idle; done implies
\* a generatedVideoUrl, error implies a non-empty videoGenerationProgress.
C2_SettledAfterRun ==
    \A k \in DOMAIN scenes :
        LET s == scenes[k] IN
        /\ (RunsOf(s.id) # {} /\ ActiveRuns(s.id) = {})
              => s.videoGenerationStatus \in {"done", "error"}
        /\ s.videoGenerationStatus = "done" => s.generatedVideoUrl # Absent
        /\ s.videoGenerationStatus = "error"
              => s.videoGenerationProgress # NoText

\* a Run has returned with the scene done and its video URL stored
C2_Witness ==
    \E k \in DOMAIN scenes :
        /\ scenes[k].videoGenerationStatus = "done"
        /\ scenes[k].generatedVideoUrl # Absent
        /\ \E r \in RunsOf(scenes[k].id) : runs[r].pc = "done"

\* ------------------------------------------------------------------ C3

\* C3: the status of a scene changes only along idle->pending,
\* pending->done, pending->error and error->pending.
C3_StatusSteps ==
    [][\A k \in DOMAIN scenes, j \in DOMAIN scenes' :
          scenes[k].id = scenes'[j].id =>
             \/ scenes'[j].videoGenerationStatus = scenes[k].videoGenerationStatus
             \/ <<scenes[k].videoGenerationStatus,
                  scenes'[j].videoGenerationStatus>> \in AllowedStatusSteps]_vars

\* a scene went idle -> pending -> error -> pending -> done
C3_Witness ==
    \E k \in DOMAIN scenes :
        /\ scenes[k].videoGenerationStatus = "done"
        /\ \E q \in RunsOf(scenes[k].id) : runs[q].pc = "error"

\* ------------------------------------------------------------------ C4

\* C4: generatedVideoUrl is present only in status done; a Run that ended
\* in error left none.
C4_UrlOnlyWhenDone ==
    \A k \in DOMAIN scenes :
        scenes[k].generatedVideoUrl # Absent
            => scenes[k].videoGenerationStatus = "done"

\* a Run failed while retrieving the result and the scene has no URL
C4_Witness ==
    \E k \in DOMAIN scenes :
        /\ scenes[k].videoGenerationStatus = "error"
        /\ scenes[k].generatedVideoUrl = Absent
        /\ \E r \in RunsOf(scenes[k].id) :
              runs[r].failure = <<MkError("Failed to download video: Forbidden")>>

\* ------------------------------------------------------------------ C5

\* C5: a Run in which submission, a poll or the retrieval failed has
\* returned normally (no exception left the handler), and its scene, if
\* still in the storyboard and not run again, is in status error with the
\* failure's message as videoGenerationProgress, never pending.
C5_FailureBecomesError ==
    \A r \in DOMAIN runs :
        runs[r].failure # Absent =>
            /\ runs[r].outcome = "returned"
            /\ \A k \in DOMAIN scenes :
                  (scenes[k].id = runs[r].sceneId /\ IsLastRun(r)) =>
                      /\ scenes[k].videoGenerationStatus = "error"
                      /\ scenes[k].videoGenerationProgress # NoText
                      /\ runs[r].failure[1].isError =>
                            scenes[k].videoGenerationProgress
                               = runs[r].failure[1].message

\* a poll call failed and the scene shows the transport error
C5_Witness ==
    \E r \in DOMAIN runs, k \in DOMAIN scenes :
        /\ runs[r].failure = <<MkError("getVideosOperation: network error")>>
        /\ scenes[k].id = runs[r].sceneId
        /\ scenes[k].videoGenerationStatus = "error"
        /\ scenes[k].videoGenerationProgress = "getVideosOperation: network error"

\* ------------------------------------------------------------------ C6

\* C6: when a frame call of one scene fails during the build, every scene
\* already made ready (isLoading = false) stays in the storyboard, at its
\* place and unchanged.
C6_SiblingsKept ==
    [][\A b \in DOMAIN builds :
          (builds[b].pc \in {"startFrame", "endFrame"}
             /\ builds'[b].failed = "frame") =>
          \A k \in DOMAIN scenes :
              ~scenes[k].isLoading =>
                  k \in DOMAIN scenes' /\ scenes'[k] = scenes[k]]_vars

\* ------------------------------------------------------------------ C7

\* C7: a build in which a frame call failed has nevertheless started the
\* frame stage of every scene of its decomposition result.
C7_RemainingStagesStarted ==
    \A b \in DOMAIN builds :
        builds[b].failed = "frame" =>
            builds[b].i + 1 = Len(builds[b].panels)

\* ------------------------------------------------------------------ C8

\* C8: a build whose decomposition failed has published no placeholder and
\* made no frame-synthesis call, and the step in which it failed reported
\* the error with a non-empty message and left the storyboard empty.
C8_DecompositionFailureAborts ==
    [][\A b \in DOMAIN builds' :
          builds'[b].failed = "decompose" =>
             /\ builds'[b].pc = "done"
             /\ ~builds'[b].published
             /\ builds'[b].frameCalls = 0
             /\ (b \in DOMAIN builds /\ builds[b].failed = "no") =>
                   /\ scenes' = <<>>
                   /\ Len(alerts') = Len(alerts) + 1
                   /\ alerts'[Len(alerts')][2] # NoText]_vars

\* a build has been aborted by an unparseable decomposition result
C8_Witness ==
    \E b \in DOMAIN builds :
        /\ builds[b].failed = "decompose"
        /\ scenes = <<>>
        /\ \E a \in DOMAIN alerts :
              alerts[a][2] = "Failed to get a valid storyboard from AI."

\* ------------------------------------------------------------------ C9

\* C9: the step in which decomposition returns n panels publishes a
\* storyboard of exactly n scenes, the k-th built from the k-th panel, each
\* with isLoading = true, status idle and no frame; no frame-synthesis call
\* of that build was issued before.
C9_PlaceholdersPublished ==
    [][\A b \in DOMAIN builds :
          (builds[b].pc = "decompose" /\ builds'[b].published) =>
             /\ builds[b].frameCalls = 0
             /\ Len(scenes') = Len(builds'[b].panels)
             /\ \A k \in DOMAIN scenes' :
                   /\ scenes'[k].description = builds'[b].panels[k].sceneDescription
                   /\ scenes'[k].duration = builds'[b].panels[k].duration
                   /\ scenes'[k].isLoading
                   /\ scenes'[k].videoGenerationStatus = "idle"
                   /\ scenes'[k].startFrame = Absent
                   /\ scenes'[k].endFrame = Absent]_vars

\* two placeholders have just been published, the first frame call pending
C9_Witness ==
    /\ Len(scenes) = 2
    /\ \A k \in DOMAIN scenes : scenes[k].isLoading
    /\ \E b \in DOMAIN builds :
          /\ builds[b].published
          /\ builds[b].pc = "startFrame"
          /\ builds[b].i = 0
          /\ Len(builds[b].panels) = 2

\* ----------------------------------------------------------------- C10

\* C10: the duration stored in a scene is an integer from 1 to 10, whatever
\* duration the decomposition service returned.
C10_DurationInRange ==
    probe.applied => (1 <= probe.stored /\ probe.stored <= 10)

\* ------------------------------------------------------------------ C11

\* pagesToImport[panel.sourcePageIndex]: the page, or undefined when the
\* index is outside the list
PageAt(numPages, index) ==
    IF 0 <= index /\ index < numPages THEN <<"page", index>> ELSE Absent

PageIndexInit ==
    /\ showImportModal = FALSE
    /\ isGenerating = FALSE
    /\ importedPages = 0
    /\ scenes = <<>>
    /\ selectedSceneId = Absent
    /\ builds = <<>>
    /\ runs = <<>>
    /\ alerts = <<>>
    /\ now = 0
    /\ regenState = Absent
    /\ regeneratingFrame = Absent
    /\ regens = <<>>
    /\ storyCall = NoCall
    /\ usageHistory = <<>>
    /\ totalCostUSD = 0
    /\ \E raw \in -1..MaxRawIndex, numPages \in 1..MaxProbePages :
          probe = [raw |-> raw, numPages |-> numPages, applied |-> FALSE,
                   stored |-> 0, sourceImage |-> Absent]

\* generateStoryboardFromPages enriches the one panel, the handler builds its
\* placeholder scene and looks up the reference page of the first stage
PageIndexStep ==
    /\ ~probe.applied
    /\ LET panels == EnrichPanels(<< [RawPanel(1) EXCEPT !.sourcePageIndex = probe.raw] >>)
           placeholderScenes == PlaceholderScenes(panels, 0)
       IN probe' = [probe EXCEPT
                       !.applied = TRUE,
                       !.stored = placeholderScenes[1].sourcePageIndex,
                       !.sourceImage = PageAt(probe.numPages, panels[1].sourcePageIndex)]
    /\ UNCHANGED <<showImportModal, isGenerating, importedPages, scenes,
                   selectedSceneId, builds, runs, alerts, now,
                   regenState, regeneratingFrame, regens, storyCall, usageHistory,
                   totalCostUSD>>

PageIndexNext == PageIndexStep

SpecPageIndex == PageIndexInit /\ [][PageIndexNext]_vars

\* C11: for every scene built from a decomposition result over numPages
\* pages, 0 <= sourcePageIndex < numPages whatever index the service
\* returned, and the reference page handed to the start-frame call exists.
C11_PageIndexInRange ==
    probe.applied =>
        /\ 0 <= probe.stored
        /\ probe.stored < probe.numPages
        /\ probe.sourceImage # Absent

\* ------------------------------------------------------------------ C12

\* the frame calls a build has issued once it works on stage i: the two
\* of every earlier stage and one or two of stage i
FrameCallsAt(i, pc) ==
    2 * i + (IF pc = "startFrame" THEN 1 ELSE 2)

\* C12: within a build, scenes are processed strictly sequentially: while
\* the build works on the stage of scene i, the frame calls it has issued so
\* far are those of the finished stages 0..i-1 and of stage i alone, every
\* earlier scene still in the storyboard is ready and every later one is
\* still loading.
C12_OneStageAtATime ==
    \A b \in DOMAIN builds :
        builds[b].pc \in {"startFrame", "endFrame"} =>
            /\ builds[b].frameCalls = FrameCallsAt(builds[b].i, builds[b].pc)
            /\ \A k \in DOMAIN scenes, j \in DOMAIN builds[b].ids :
                  scenes[k].id = builds[b].ids[j] =>
                      (scenes[k].isLoading <=> j > builds[b].i)

\* a build works on the stage of its second scene
C12_Witness ==
    \E b \in DOMAIN builds :
        /\ builds[b].pc = "endFrame"
        /\ builds[b].i = 1
        /\ Len(scenes) = 2
        /\ scenes[2].id = builds[b].ids[2]

\* ------------------------------------------------------------------ C13

\* C13: whenever the end-frame call of a stage is in flight, the start
\* frame of that stage has resolved, the prompts of the concurrent branch
\* have been collected, and the call was given exactly that start frame;
\* while the start-frame call is in flight no end-frame call has been made.
C13_EndFrameAfterStartFrame ==
    \A b \in DOMAIN builds :
        /\ builds[b].pc = "endFrame" =>
              /\ builds[b].startFrame = <<"start", b, builds[b].i>>
              /\ builds[b].allPrompts # Absent
              /\ builds[b].endFrameArgs # Absent
              /\ builds[b].endFrameArgs[1] = builds[b].startFrame
        /\ builds[b].pc = "startFrame" => builds[b].endFrameArgs = Absent

\* the end-frame call of a second scene is in flight with that scene's
\* start frame
C13_Witness ==
    \E b \in DOMAIN builds :
        /\ builds[b].pc = "endFrame"
        /\ builds[b].i = 1
        /\ builds[b].endFrameArgs[1] = <<"start", b, 1>>

\* ------------------------------------------------------------------ C14

\* C14: scenes become ready in decomposition order: a ready scene is never
\* preceded in the storyboard by a scene that is still loading.
C14_ReadyInOrder ==
    \A i \in DOMAIN scenes, j \in DOMAIN scenes :
        (i < j /\ ~scenes[j].isLoading) => ~scenes[i].isLoading

\* the first scene is ready while the second is still loading
C14_Witness ==
    /\ Len(scenes) = 2
    /\ ~scenes[1].isLoading
    /\ scenes[2].isLoading

\* ------------------------------------------------------------------ C15

\* the scene a run works for is still in the storyboard
SceneInStoryboard(id) == \E k \in DOMAIN scenes : scenes[k].id = id

\* C15: once the storyboard a video job or a frame stage belongs to has
\* been discarded or replaced, no further poll and no further
\* frame-synthesis call is issued for it: a poll is issued only for a scene
\* that is in the storyboard, and a frame call only by the latest build
\* while its scenes are in the storyboard.
C15_StaleWorkCancelled ==
    [][/\ \A r \in DOMAIN runs :
             (runs'[r] # runs[r] /\ runs'[r].pc = "poll")
                 => SceneInStoryboard(runs[r].sceneId)
       /\ \A b \in DOMAIN builds :
             (builds[b].published /\ builds'[b].frameCalls > builds[b].frameCalls)
                 => /\ b = Len(builds)
                    /\ \A j \in DOMAIN builds[b].ids :
                          SceneInStoryboard(builds[b].ids[j])]_vars

\* ------------------------------------------------------------------ C16

\* the fields of a scene other than the frame of the given type
OtherFields(s, frameType) ==
    IF frameType = "start"
      THEN [s EXCEPT !.startFrame = Absent]
      ELSE [s EXCEPT !.endFrame = Absent]

\* C16: the step in which a regeneration succeeds changes, in the scene it
\* was started for, only the frame of its type (start or end), which
\* becomes the new image; the other frame, the prompts and every scalar
\* field of that scene, and every other scene, stay as they were.
C16_OnlyTargetFrameChanges ==
    [][\A g \in DOMAIN regens :
          (regens[g].pc = "call" /\ regens'[g].pc = "done") =>
             /\ DOMAIN scenes' = DOMAIN scenes
             /\ \A k \in DOMAIN scenes :
                   IF scenes[k].id = regens[g].sceneId
                     THEN /\ OtherFields(scenes'[k], regens[g].frameType)
                               = OtherFields(scenes[k], regens[g].frameType)
                          /\ FrameOf(scenes'[k], regens[g].frameType) = <<"regen", g>>
                     ELSE scenes'[k] = scenes[k]]_vars

\* a scene's start frame and another's end frame were regenerated, the
\* other frame of each being the one the build made
C16_Witness ==
    \E k \in DOMAIN scenes, j \in DOMAIN scenes :
        /\ scenes[k].startFrame[1] = "regen"
        /\ scenes[k].endFrame[1] = "end"
        /\ scenes[j].endFrame[1] = "regen"
        /\ scenes[j].startFrame[1] = "start"

\* ------------------------------------------------------------------ C17

\* C17: the step in which a regeneration fails reports the failure once,
\* with a non-empty message, and leaves the storyboard exactly as it was.
C17_FailedRegenKeepsStoryboard ==
    [][\A g \in DOMAIN regens :
          (regens[g].pc = "call" /\ regens'[g].pc = "error") =>
             /\ scenes' = scenes
             /\ Len(alerts') = Len(alerts) + 1
             /\ alerts'[Len(alerts')][1] = "Frame regeneration failed"
             /\ alerts'[Len(alerts')][2] # NoText]_vars

\* a regeneration has failed and the frame it was asked to replace is
\* still the original one
C17_Witness ==
    \E g \in DOMAIN regens, k \in DOMAIN scenes :
        /\ regens[g].pc = "error"
        /\ scenes[k].id = regens[g].sceneId
        /\ FrameOf(scenes[k], regens[g].frameType) = regens[g].originalFrame
        /\ Len(alerts) > 0

\* ------------------------------------------------------------------ C18

\* the scenes and rosters the prompt generators are tried on, on their own
ComposeScenes ==
    { [sceneDescription |-> <<"desc", d>>, narrative |-> <<"narr", d>>,
       duration |-> dur, charactersInScene |-> cs, sourcePageIndex |-> idx,
       recommendedModel |-> "veo", reasoning |-> "The scene has dialogue."] :
         d \in 1..2, dur \in {0, 3, 10},
         cs \in {<<>>, <<"Ann">>, <<"Bo", "Zed">>}, idx \in {-1, 0, 1} }

ComposeRosters == {<<>>, characters}

ComposeInit ==
    /\ showImportModal = FALSE
    /\ isGenerating = FALSE
    /\ importedPages = 0
    /\ scenes = <<>>
    /\ selectedSceneId = Absent
    /\ builds = <<>>
    /\ runs = <<>>
    /\ alerts = <<>>
    /\ now = 0
    /\ regenState = Absent
    /\ regeneratingFrame = Absent
    /\ regens = <<>>
    /\ storyCall = NoCall
    /\ usageHistory = <<>>
    /\ totalCostUSD = 0
    /\ \E scene \in ComposeScenes, roster \in ComposeRosters :
          probe = [scene |-> scene, roster |-> roster,
                   first |-> Absent, second |-> Absent]

\* generateAllModelPrompts is called with the scene and the roster, a first
\* time and, later, a second time
ComposeStep ==
    /\ probe.second = Absent
    /\ now' = now + 1
    /\ LET prompts == generateAllModelPrompts(probe.scene, probe.roster)
       IN IF probe.first = Absent
            THEN probe' = [probe EXCEPT !.first = prompts]
            ELSE probe' = [probe EXCEPT !.second = prompts]
    /\ UNCHANGED <<showImportModal, isGenerating, importedPages, scenes,
                   selectedSceneId, builds, runs, alerts,
                   regenState, regeneratingFrame, regens, storyCall, usageHistory,
                   totalCostUSD>>

ComposeNext == ComposeStep

SpecCompose == ComposeInit /\ [][ComposeNext]_vars

VideoModelIds == {"seedance", "hailuo", "veo", "kling"}

\* what the recommendation service can answer one call with: a parsed
\* recommendation of one of the four models, or text that does not parse
RecommendAnswers ==
    { [parses |-> TRUE, model |-> m, reasoning |-> "The scene has dialogue."] :
         m \in VideoModelIds }
    \cup { [parses |-> FALSE, model |-> "", reasoning |-> ""] }

RecommendFailures == {MkError("generateContent: network error")}

\* promptTokenCount + candidatesTokenCount of a text response
ResponseTokens == {3, 5}

\* recommendVideoModel after its await: the parsed result, or the fallback
\* of its catch block
recommendVideoModel(answer) ==
    IF answer.parses
      THEN [model |-> answer.model, reasoning |-> answer.reasoning]
      ELSE DefaultRecommendation

StoryInit ==
    /\ showImportModal = FALSE
    /\ isGenerating = FALSE
    /\ importedPages = 0
    /\ scenes = <<>>
    /\ selectedSceneId = Absent
    /\ builds = <<>>
    /\ runs = <<>>
    /\ alerts = <<>>
    /\ now = 0
    /\ probe = NoProbe
    /\ regenState = Absent
    /\ regeneratingFrame = Absent
    /\ regens = <<>>
    /\ storyCall = [pc |-> "decompose", panels |-> <<>>, recs |-> <<>>,
                    decomposeTokens |-> 0, tokens |-> 0, result |-> Absent]
    /\ usageHistory = <<>>
    /\ totalCostUSD = 0

StoryUnchanged ==
    UNCHANGED <<showImportModal, isGenerating, importedPages, scenes,
                selectedSceneId, builds, runs, alerts, probe,
                regenState, regeneratingFrame, regens, usageHistory,
                   totalCostUSD>>

\* mutant: the sum is made from the value usage.tokens had when the
\* recommendation calls were issued
AccumulateTokens_ReadAtIssue(usageTokens, recommendTokens) ==
    storyCall.decomposeTokens + recommendTokens

\* usage.tokens = (usage.tokens || 0) + (recommendUsage.tokens || 0), run
\* in one piece after the await of the recommendation
AccumulateTokens(usageTokens, recommendTokens) ==
    usageTokens + recommendTokens

\* the decomposition call rejected: it is awaited outside the try block,
\* so the function rejects with the same value
StoryDecomposeFail(e) ==
    /\ storyCall.pc = "decompose"
    /\ storyCall' = [storyCall EXCEPT !.pc = "rejected", !.result = e]
    /\ Tick
    /\ StoryUnchanged

\* the decomposition call resolved with text that JSON.parse rejects: the
\* catch block throws its own error
StoryDecomposeUnparseable ==
    /\ storyCall.pc = "decompose"
    /\ storyCall' = [storyCall EXCEPT
                        !.pc = "rejected",
                        !.result = MkError("Failed to get a valid storyboard from AI.")]
    /\ Tick
    /\ StoryUnchanged

\* the decomposition call resolved with a panel list: panels.map starts one
\* recommendVideoModel call per panel, all of them before the first await
\* of Promise.all; usage starts with the tokens of this response, which
\* decomposeTokens keeps for reference
StoryDecomposeReturn(raw, tokens) ==
    /\ storyCall.pc = "decompose"
    /\ storyCall' =
          IF Len(raw) = 0
            THEN [storyCall EXCEPT !.pc = "resolved", !.result = <<>>,
                                   !.decomposeTokens = tokens,
                                   !.tokens = tokens]
            ELSE [storyCall EXCEPT
                     !.pc = "recommend", !.panels = raw,
                     !.decomposeTokens = tokens, !.tokens = tokens,
                     !.recs = [k \in DOMAIN raw |->
                                  [state |-> "call", rec |-> Absent, tokens |-> 0]]]
    /\ Tick
    /\ StoryUnchanged

\* the recommendation call of panel k resolved; when it was the last one
\* and none was rejected, Promise.all resolves and the function returns the
\* enriched panels; usage.tokens = (usage.tokens || 0) + (recommendUsage.tokens || 0)
RecommendReturn(k, answer, tokens) ==
    /\ storyCall.pc \in {"recommend", "rejected"}
    /\ k \in DOMAIN storyCall.recs
    /\ storyCall.recs[k].state = "call"
    /\ LET recs == [storyCall.recs EXCEPT
                       ![k] = [state |-> IF answer.parses THEN "parsed" ELSE "unparseable",
                               rec |-> recommendVideoModel(answer),
                               tokens |-> tokens]]
           allDone == \A j \in DOMAIN recs : recs[j].state \in {"parsed", "unparseable"}
       IN storyCall' =
             IF storyCall.pc = "recommend" /\ allDone
               THEN [storyCall EXCEPT
                        !.recs = recs, !.pc = "resolved",
                        !.tokens = AccumulateTokens(@, tokens),
                        !.result = [j \in DOMAIN recs |->
                                       EnrichPanel(storyCall.panels[j], recs[j].rec)]]
               ELSE [storyCall EXCEPT !.recs = recs,
                                      !.tokens = AccumulateTokens(@, tokens)]
    /\ Tick
    /\ StoryUnchanged

\* the recommendation call of panel k rejected: it is awaited outside the
\* try block of recommendVideoModel, so the map callback rejects, Promise.all
\* rejects and the catch block of generateStoryboardFromPages throws
RecommendFail(k, e) ==
    /\ storyCall.pc \in {"recommend", "rejected"}
    /\ k \in DOMAIN storyCall.recs
    /\ storyCall.recs[k].state = "call"
    /\ storyCall' =
          [storyCall EXCEPT
              !.recs[k] = [state |-> "failed", rec |-> Absent, tokens |-> 0],
              !.pc = "rejected",
              !.result = IF storyCall.pc = "rejected"
                           THEN @
                           ELSE MkError("Failed to get a valid storyboard from AI.")]
    /\ Tick
    /\ StoryUnchanged

StoryNext ==
    \/ \E e \in ExternalFailures : StoryDecomposeFail(e)
    \/ StoryDecomposeUnparseable
    \/ \E raw \in RawPanelLists, tokens \in ResponseTokens :
          StoryDecomposeReturn(raw, tokens)
    \/ \E k \in 1..MaxScenes, answer \in RecommendAnswers, tokens \in ResponseTokens :
          RecommendReturn(k, answer, tokens)
    \/ \E k \in 1..MaxScenes, e \in RecommendFailures : RecommendFail(k, e)

SpecStory == StoryInit /\ [][StoryNext]_vars

\* ------------------------------------------------------------------ C19

\* C19: when the recommendation call of a panel has failed, by a transport
\* failure or by an answer that does not parse, the storyboard call is not
\* aborted and the panel has the default model with the fallback reasoning.
C19_RecommendationFailureNotFatal ==
    \A k \in DOMAIN storyCall.recs :
        storyCall.recs[k].state \in {"failed", "unparseable"} =>
            /\ storyCall.pc # "rejected"
            /\ storyCall.recs[k].rec = DefaultRecommendation

\* ------------------------------------------------------------------ C20

RECURSIVE CountIn(_, _)
\* how many entries of the sequence lie in the set
CountIn(seq, set) ==
    IF seq = <<>> THEN 0
    ELSE (IF seq[1] \in set THEN 1 ELSE 0) + CountIn(Tail(seq), set)

RotatingMessages == {progressMessages[j] : j \in DOMAIN progressMessages}

\* the rotating messages a run has handed to its caller
RotatingUpdates(r) == CountIn(runs[r].updates, RotatingMessages)

\* the progress updates of a run that was polled n times and then fetched
\* its video
UpdatesAfterPolls(n) ==
    <<"Starting video generation...">>
       \o [j \in 1..n |-> progressMessages[((j - 1) % 6) + 1]]
       \o <<"Fetching video...">>

\* C20 (as stated): a Run that ended in done has handed its caller one
\* rotating progress update per poll that reported the job pending: two for
\* the poll sequence [pending, pending, done].
C20_OneUpdatePerPendingPoll ==
    \A r \in DOMAIN runs :
        runs[r].pc = "done" =>
            RotatingUpdates(r) = CountIn(runs[r].polls, {"running"})

\* C20 (amended): a Run that ended in done leaves its scene, unless run
\* again, in status done with the URL of the downloaded video, and has
\* handed its caller the starting message, then one rotating update per
\* poll it issued, the poll that reported done included, then the fetching
\* message: three rotating updates for the poll sequence
\* [pending, pending, done].
C20_OneUpdatePerPoll ==
    \A r \in DOMAIN runs :
        runs[r].pc = "done" =>
            /\ runs[r].updates = UpdatesAfterPolls(Len(runs[r].polls))
            /\ \A k \in DOMAIN scenes :
                  (scenes[k].id = runs[r].sceneId /\ IsLastRun(r)) =>
                      /\ scenes[k].videoGenerationStatus = "done"
                      /\ scenes[k].generatedVideoUrl = <<"blob", r>>

\* a Run whose polls reported pending, pending, done has ended in done
C20_Witness ==
    \E r \in DOMAIN runs, k \in DOMAIN scenes :
        /\ runs[r].pc = "done"
        /\ runs[r].polls = <<"running", "running", "ok">>
        /\ scenes[k].id = runs[r].sceneId
        /\ scenes[k].videoGenerationStatus = "done"
        /\ RotatingUpdates(r) = 3

\* ------------------------------------------------------------------ C21

\* startFrame, endFrame and prompts of a scene are all populated
Populated(s) ==
    /\ s.startFrame # Absent
    /\ s.endFrame # Absent
    /\ s.prompts # Absent

\* C21: in every reachable state and for every scene, isLoading is false
\* exactly when startFrame, endFrame and prompts are all populated: a scene
\* that is no longer loading has all three, and a scene that has all three
\* is no longer loading.
C21_LoadingUntilPopulated ==
    \A k \in DOMAIN scenes : ~scenes[k].isLoading <=> Populated(scenes[k])

\* the first scene has been made ready while the second is a placeholder
\* without frames or prompts
C21_Witness ==
    /\ Len(scenes) = 2
    /\ ~scenes[1].isLoading /\ Populated(scenes[1])
    /\ scenes[2].isLoading
    /\ scenes[2].startFrame = Absent
    /\ scenes[2].endFrame = Absent
    /\ scenes[2].prompts = Absent

\* ------------------------------------------------------------------ C22

\* the names of the roster handed to generateStoryboardFromPages and to the
\* prompt generators
RosterNames == {characters[j].name : j \in DOMAIN characters}

\* the character names the prompt templates interpolate: the anchors of the
\* seedance prompt and the joined list of the kling prompt
NamesInPrompts(prompts) ==
    {prompts[1][4][j][2] : j \in DOMAIN prompts[1][4]}
       \cup {prompts[4][3][j] : j \in DOMAIN prompts[4][3]}

\* C22: for every scene of the storyboard, every name in charactersInScene
\* is a name of the character roster, and no name outside the roster is
\* interpolated into the scene's prompts.
C22_CharactersInRoster ==
    \A k \in DOMAIN scenes :
        /\ \A j \in DOMAIN scenes[k].charactersInScene :
              scenes[k].charactersInScene[j] \in RosterNames
        /\ scenes[k].prompts # Absent =>
              NamesInPrompts(scenes[k].prompts) \subseteq RosterNames

\* ------------------------------------------------------------------ C23

\* the positions of the video records in a usage history
VideoRecords(history) ==
    {j \in DOMAIN history : history[j].unit = "videoSeconds"}

\* C23: the step in which a Run ends in done adds exactly one usage record
\* to the history, a video record whose size is the duration of the Run's
\* scene, and marks the scene done in that same step; the step in which a
\* Run ends in error adds none; so the history holds one video record per
\* Run that ended in done.
C23_VideoUsageOnDone ==
    [][/\ \A r \in DOMAIN runs :
             /\ (runs[r].pc # "done" /\ runs'[r].pc = "done") =>
                   /\ Len(usageHistory') = Len(usageHistory) + 1
                   /\ Tail(usageHistory') = usageHistory
                   /\ usageHistory'[1].unit = "videoSeconds"
                   /\ \A k \in DOMAIN scenes :
                         scenes[k].id = runs[r].sceneId =>
                            /\ usageHistory'[1].amount = scenes[k].duration
                            /\ scenes'[k].videoGenerationStatus = "done"
             /\ (runs[r].pc # "error" /\ runs'[r].pc = "error") =>
                   usageHistory' = usageHistory
       /\ Cardinality(VideoRecords(usageHistory'))
             = Cardinality({r \in DOMAIN runs' : runs'[r].pc = "done"})]_vars

\* a Run ended in error, a second Run on the same scene ended in done, and
\* the history holds the one video record, of the scene's duration
C23_Witness ==
    \E r \in DOMAIN runs, q \in DOMAIN runs, k \in DOMAIN scenes :
        /\ runs[q].pc = "error"
        /\ runs[r].pc = "done"
        /\ scenes[k].id = runs[r].sceneId
        /\ Cardinality(VideoRecords(usageHistory)) = 1
        /\ usageHistory[1].unit = "videoSeconds"
        /\ usageHistory[1].amount = scenes[k].duration

\* ------------------------------------------------------------------ C24

\* C24: provided the video service reports completion after finitely many
\* polls and every awaited call settles, every scene that a Run has moved
\* to pending is eventually done or error and every Run ends; a Run goes on
\* polling exactly while the service answers that the job is still running,
\* and never polls again once an answer has reported completion.
C24_PendingEventuallySettles ==
    /\ \A k \in 1..MaxScenes :
          (k \in DOMAIN scenes /\ scenes[k].videoGenerationStatus = "pending")
             ~> (k \in DOMAIN scenes /\ scenes[k].videoGenerationStatus \in Settled)
    /\ \A r \in 1..MaxRuns :
          (r \in DOMAIN runs) ~> (r \in DOMAIN runs /\ runs[r].pc \in Settled)
    /\ [][\A r \in DOMAIN runs :
             /\ (runs[r].pc \in {"submit", "poll"} /\ runs'[r].polls # runs[r].polls)
                   => (runs'[r].pc = "poll"
                          <=> runs'[r].polls[Len(runs'[r].polls)] = "running")
             /\ runs[r].pc \notin {"submit", "poll"} => runs'[r].pc # "poll"]_vars

\* a Run was polled three times, the service answering twice that the job
\* was still running, and has settled its scene as done
C24_Witness ==
    \E r \in DOMAIN runs, k \in DOMAIN scenes :
        /\ runs[r].pc = "done"
        /\ runs[r].polls = <<"running", "running", "ok">>
        /\ scenes[k].id = runs[r].sceneId
        /\ scenes[k].videoGenerationStatus = "done"
        /\ now = 5

\* ------------------------------------------------------------------ C25

\* the recommendation calls of a storyboard call that are in flight
RecommendCallsInFlight ==
    {k \in DOMAIN storyCall.recs : storyCall.recs[k].state = "call"}

\* C25: during a build the external calls in flight at the same time are
\* bounded independently of the number of scenes: recommendation calls, like
\* frame calls, are issued for one scene at a time, so at most one of them
\* is in flight.
C25_RecommendOneAtATime ==
    Cardinality(RecommendCallsInFlight) <= 1

\* ------------------------------------------------------------------ C26

\* the ids the patches of the step are addressed to: the scene of every
\* video job that was started or moved on, of every frame stage that was
\* completed and of every regeneration that ended
PatchTargets ==
    {runs'[r].sceneId : r \in {q \in DOMAIN runs' :
                                  q \notin DOMAIN runs \/ runs'[q] # runs[q]}}
       \cup {builds[b].ids[builds[b].i + 1] :
                b \in {c \in DOMAIN builds : builds[c].pc = "endFrame"
                                                /\ builds'[c] # builds[c]}}
       \cup {regens[g].sceneId : g \in {h \in DOMAIN regens : regens'[h] # regens[h]}}

\* the storyboard as a whole was replaced by the placeholders of a build,
\* or cleared
StoryboardReplaced ==
    \/ scenes' = <<>>
    \/ \E b \in DOMAIN builds' :
          /\ builds'[b].published
          /\ b \in DOMAIN builds => ~builds[b].published

\* C26: every step that changes the storyboard without replacing or
\* clearing it as a whole keeps the number, the ids and the order of the
\* scenes and changes only scenes whose id is the one its patch is
\* addressed to; as ids are distinct, that is at most one scene per patch.
C26_PatchesByIdOnly ==
    [][(scenes' # scenes /\ ~StoryboardReplaced) =>
          /\ Len(scenes') = Len(scenes)
          /\ \A k \in DOMAIN scenes : scenes'[k].id = scenes[k].id
          /\ \A k \in DOMAIN scenes :
                scenes'[k] # scenes[k] => scenes[k].id \in PatchTargets
          /\ Cardinality({k \in DOMAIN scenes : scenes'[k] # scenes[k]}) <= 1]_vars

\* the video job of the first scene has reported progress while the
\* second scene, still a placeholder, shows none
C26_Witness ==
    /\ Len(scenes) = 2
    /\ scenes[1].videoGenerationStatus = "pending"
    /\ scenes[1].videoGenerationProgress = "Fetching video..."
    /\ scenes[2].isLoading
    /\ scenes[2].videoGenerationStatus = "idle"
    /\ scenes[2].videoGenerationProgress = NoText

\* ------------------------------------------------------------------ C27

\* the step reported an error to the user: one alert more, with text
AlertRaised ==
    /\ Len(alerts') = Len(alerts) + 1
    /\ alerts'[Len(alerts')][1] # NoText
    /\ alerts'[Len(alerts')][2] # NoText

\* C27: the step in which a build or a regeneration fails reports an error
\* with a non-empty message, and the step in which a video job fails leaves
\* a scene of the storyboard in status error showing a non-empty message,
\* also when the storyboard the job was started on has been cleared or
\* replaced since.
C27_EveryFailureVisible ==
    [][/\ \A b \in DOMAIN builds :
             (builds[b].failed = "no" /\ builds'[b].failed # "no") => AlertRaised
       /\ \A g \in DOMAIN regens :
             (regens[g].failure = Absent /\ regens'[g].failure # Absent)
                 => AlertRaised
       /\ \A r \in DOMAIN runs :
             (runs[r].failure = Absent /\ runs'[r].failure # Absent) =>
                 \/ AlertRaised
                 \/ \E k \in DOMAIN scenes' :
                       /\ scenes'[k].id = runs[r].sceneId
                       /\ scenes'[k].videoGenerationStatus = "error"
                       /\ scenes'[k].videoGenerationProgress # NoText]_vars

\* ------------------------------------------------------------------ C28

\* the progress updates of a run that waits for the answer to poll number
\* k, counting from 0: the starting message, then one message of the cycle
\* per poll issued, the j-th being cycle[j mod 6]
UpdatesBeforePoll(k) ==
    <<"Starting video generation...">>
       \o [j \in 1..(k + 1) |-> progressMessages[((j - 1) % 6) + 1]]

\* the scene of a run that was not run again since
SceneOfLastRun(r) ==
    {k \in DOMAIN scenes : scenes[k].id = runs[r].sceneId /\ IsLastRun(r)}

\* C28: while the submission of a Run is in flight the scene is already
\* pending and shows the initial, non-empty progress message, the only
\* update emitted so far; while poll number k (from 0) is in flight, the
\* updates emitted are the initial message and exactly one message of the
\* six-message cycle per poll issued, the last being cycle[k mod 6], which
\* is non-empty and is what the pending scene shows.
C28_ProgressBeforeEachPoll ==
    \A r \in DOMAIN runs :
        /\ runs[r].pc = "submit" =>
              /\ runs[r].updates = <<"Starting video generation...">>
              /\ \A k \in SceneOfLastRun(r) :
                    /\ scenes[k].videoGenerationStatus = "pending"
                    /\ scenes[k].videoGenerationProgress
                          = "Starting video generation..."
        /\ runs[r].pc = "poll" =>
              /\ runs[r].updates = UpdatesBeforePoll(runs[r].pollCount)
              /\ progressMessages[(runs[r].pollCount % 6) + 1] # NoText
              /\ \A k \in SceneOfLastRun(r) :
                    /\ scenes[k].videoGenerationStatus = "pending"
                    /\ scenes[k].videoGenerationProgress
                          = progressMessages[(runs[r].pollCount % 6) + 1]

\* poll number 7 is in flight and the scene shows the second message of
\* the cycle for the second time
C28_Witness ==
    \E r \in DOMAIN runs, k \in DOMAIN scenes :
        /\ runs[r].pc = "poll"
        /\ runs[r].pollCount = 7
        /\ scenes[k].id = runs[r].sceneId
        /\ scenes[k].videoGenerationProgress = "Setting up the scene..."
        /\ Len(runs[r].updates) = 9

\* ------------------------------------------------------------------ C29

\* the names of the fields of a job request, those of its config included
RequestFields(request) == DOMAIN request \cup DOMAIN request.config

\* C29: the job request a Run has submitted to the video service carries
\* all three of the scene's prompt, its start frame and its duration.
C29_RequestCarriesDuration ==
    \A r \in DOMAIN runs :
        /\ runs[r].request.prompt = runs[r].prompt
        /\ "image" \in DOMAIN runs[r].request
        /\ runs[r].request.image.imageBytes = runs[r].startFrame
        /\ RequestFields(runs[r].request)
              \cap {"duration", "durationSeconds"} # {}

\* ------------------------------------------------------------------ C30

\* what the prompt generators can read off a stored scene: the
\* description, the duration, the characters and the page index the
\* placeholder copied from its panel, and the narrative if the scene has one
SceneAsPanel(s) ==
    [sceneDescription |-> s.description,
     narrative |-> IF "narrative" \in DOMAIN s THEN s.narrative ELSE Absent,
     duration |-> s.duration,
     charactersInScene |-> s.charactersInScene,
     sourcePageIndex |-> s.sourcePageIndex,
     recommendedModel |-> s.recommendedModel,
     reasoning |-> s.reasoning]

\* C30: whenever a scene's prompts are present they equal, for every
\* backend, what generateAllModelPrompts returns for the scene's current
\* fields (description, narrative, duration, charactersInScene,
\* sourcePageIndex) and the roster, so that they can be recomputed from the
\* scene at any time.
C30_PromptsRecomputable ==
    \A k \in DOMAIN scenes :
        scenes[k].prompts # Absent =>
            \A m \in 1..4 :
                scenes[k].prompts[m]
                   = generateAllModelPrompts(SceneAsPanel(scenes[k]), characters)[m]

\* ------------------------------------------------------------------ C31

\* C31: no two scenes of the storyboard share an id, and every step that
\* does not replace or clear the storyboard as a whole leaves each scene
\* with the id it had.
C31_IdsUniqueAndStable ==
    [][/\ \A j \in DOMAIN scenes', k \in DOMAIN scenes' :
             scenes'[j].id = scenes'[k].id => j = k
       /\ ~StoryboardReplaced =>
             /\ DOMAIN scenes' = DOMAIN scenes
             /\ \A k \in DOMAIN scenes : scenes'[k].id = scenes[k].id]_vars

\* both scenes of a storyboard have been patched by their frame stages
\* and the first also by a video job, and their ids are still the two
\* ids given at creation
C31_Witness ==
    /\ Len(scenes) = 2
    /\ ~scenes[1].isLoading
    /\ ~scenes[2].isLoading
    /\ scenes[1].videoGenerationStatus # "idle"
    /\ \E b \in DOMAIN builds :
          /\ scenes[1].id = builds[b].ids[1]
          /\ scenes[2].id = builds[b].ids[2]
          /\ builds[b].ids[1] # builds[b].ids[2]

\* --------------------------------------------- the usage ledger on its own
\* Costs are kept as whole multiples of 10^-8 USD, the unit in which every
\* price of services/pricing.ts is a whole number.

\* calculateTextCost: (promptTokens / 1_000_000) * 0.35
\*                  + (completionTokens / 1_000_000) * 0.70
calculateTextCost(promptTokens, completionTokens) ==
    35 * promptTokens + 70 * completionTokens

\* PRICING.IMAGEN_PER_IMAGE: 0.02
IMAGEN_PER_IMAGE == 2000000

\* geminiService's createTextUsageRecord
geminiCreateTextUsageRecord(task, promptTokens, completionTokens) ==
    [task |-> task, unit |-> "tokens",
     amount |-> promptTokens + completionTokens,
     costUSD |-> calculateTextCost(promptTokens, completionTokens)]

\* geminiService's createImageUsageRecord
geminiCreateImageUsageRecord(task, imageCount) ==
    [task |-> task, unit |-> "images", amount |-> imageCount,
     costUSD |-> imageCount * IMAGEN_PER_IMAGE]

\* the records the callers of addUsageRecord hand over: the worldview
\* dialogue's text record, an image record of geminiService, and the
\* unpriced records of the video producer
EmittedRecords ==
    {geminiCreateTextUsageRecord("Generate Worldview", 3, 2),
     geminiCreateTextUsageRecord("Generate Worldview", 0, 0),
     geminiCreateImageUsageRecord("Generate Image", 1),
     createImageUsageRecord("Regenerate Frame", 1),
     createVideoUsageRecord("Generate VEO Video", 5)}

\* some caller, after its awaited service call, hands its record over
Emit(record) ==
    /\ Len(usageHistory) < MaxUsage
    /\ RecordUsage(record)
    /\ UNCHANGED <<showImportModal, isGenerating, importedPages, scenes,
                   selectedSceneId, builds, runs, alerts, now, probe,
                   regenState, regeneratingFrame, regens, storyCall>>

UsageNext == \E record \in EmittedRecords : Emit(record)

SpecUsage == Init /\ [][UsageNext]_vars

\* ------------------------------------------------------------------ C32
RECURSIVE SumCost(_)
SumCost(history) ==
    IF history = <<>> THEN 0
    ELSE Head(history).costUSD + SumCost(Tail(history))

\* C32: recording a usage event adds exactly one record to the history and
\* leaves every earlier record in place and unchanged, and totalCostUSD is
\* the sum of costUSD over the recorded events before and after every step.
C32_AppendOnlyAndSummed ==
    [][/\ totalCostUSD = SumCost(usageHistory)
       /\ totalCostUSD' = SumCost(usageHistory')
       /\ usageHistory' # usageHistory =>
              /\ Len(usageHistory') = Len(usageHistory) + 1
              /\ Tail(usageHistory') = usageHistory]_vars

\* priced and unpriced records have been recorded one after another
C32_Witness ==
    /\ Len(usageHistory) >= 3
    /\ \E i \in DOMAIN usageHistory : usageHistory[i].costUSD = 0
    /\ \E i \in DOMAIN usageHistory : usageHistory[i].costUSD = calculateTextCost(3, 2)
    /\ totalCostUSD > IMAGEN_PER_IMAGE

\* ------------------------------------- a build started on top of a build
\* The "Create Video from Webtoon" button is rendered whenever the
\* storyboard is empty, and it is empty from the start of a build until
\* its decomposition returns: a second build can be started while the
\* first waits for generateStoryboardFromPages.

NumRebuilds == 2

\* the state right after the second handleGenerateStoryboard was called
\* with the first one still waiting for its decomposition
RebuildInit ==
    /\ showImportModal = FALSE
    /\ isGenerating = TRUE
    /\ importedPages = 1
    /\ scenes = <<>>
    /\ selectedSceneId = Absent
    /\ builds = [b \in 1..NumRebuilds |-> NewBuild]
    /\ runs = <<>>
    /\ alerts = <<>>
    /\ now = 0
    /\ probe = NoProbe
    /\ regenState = Absent
    /\ regeneratingFrame = Absent
    /\ regens = <<>>
    /\ storyCall = NoCall
    /\ usageHistory = <<>>
    /\ totalCostUSD = 0

RebuildNext ==
    \/ \E b \in 1..NumRebuilds, e \in DecomposeFailures : DecomposeFail(b, e)
    \/ \E b \in 1..NumRebuilds, raw \in RawPanelLists : DecomposeReturn(b, raw)
    \/ \E b \in 1..NumRebuilds, e \in StartFrameFailures : StartFrameFail(b, e)
    \/ \E b \in 1..NumRebuilds : StartFrameReturn(b)
    \/ \E b \in 1..NumRebuilds, e \in EndFrameFailures : EndFrameFail(b, e)
    \/ \E b \in 1..NumRebuilds : EndFrameReturn(b)
    \/ \E k \in 1..MaxScenes : SelectScene(k)

SpecRebuild == RebuildInit /\ [][RebuildNext]_vars

\* ------------------------------------------------------------------ C33

\* build b runs its last step: the try block ends or the catch has run,
\* and finally has cleared the flag
Completes(b) ==
    /\ b \in DOMAIN builds
    /\ builds[b].pc # "done"
    /\ b \in DOMAIN builds'
    /\ builds'[b].pc = "done"

\* the storyboard is empty or none of its scenes is still loading
StoryboardSettled(ss) ==
    \A k \in DOMAIN ss : ~ss[k].isLoading

\* C33: the step in which a build completes clears the generating flag and
\* leaves a settled storyboard: an empty one, or one in which no scene is
\* still loading. (That every build does complete once its calls return
\* is the other half of the claim; this is the half about the state at
\* completion.)
C33_SettledAtCompletion ==
    [][\A b \in 1..NumRebuilds :
          Completes(b) => /\ ~isGenerating'
                          /\ StoryboardSettled(scenes')]_vars

\* ------------------------------------------------------------------ C34

\* build b takes a step: one of its awaited calls has settled and the
\* handler has run on to its next await or to its end
StepOf(b) ==
    /\ b \in DOMAIN builds
    /\ b \in DOMAIN builds'
    /\ builds'[b] # builds[b]

\* C34: once a second build has been started on top of a build that is
\* still running, no later step of the earlier build (publishing its
\* placeholders, clearing the storyboard in its failure handler, selecting
\* its first scene, clearing the generating flag) changes the storyboard,
\* the selection or the generating flag, which are the newer build's from
\* then on.
C34_EarlierBuildLeavesNewerAlone ==
    [][StepOf(1) => /\ scenes' = scenes
                    /\ selectedSceneId' = selectedSceneId
                    /\ isGenerating' = isGenerating]_vars

\* ------------------------------------------------------------------ C35

\* the regenerations of frame frameType of the scene with this id that
\* have returned an image
DoneRegens(id, frameType) ==
    {g \in DOMAIN regens : /\ regens[g].pc = "done"
                           /\ regens[g].sceneId = id
                           /\ regens[g].frameType = frameType}

\* C35: a frame of a scene for which a regeneration has returned shows the
\* image of such a regeneration, whatever regenerations of the scene's
\* other frame were in flight at the same time and in whatever order they
\* completed: no completion puts back an older image of the other frame.
C35_BothRegenerationsTakeEffect ==
    \A k \in DOMAIN scenes, frameType \in FrameTypes :
        DoneRegens(scenes[k].id, frameType) # {} =>
            \E g \in DoneRegens(scenes[k].id, frameType) :
                FrameOf(scenes[k], frameType) = <<"regen", g>>

\* the start frame and then the end frame of one scene were sent for
\* regeneration, and the later request has returned while the earlier one
\* is still in flight
C35_Witness ==
    /\ Len(regens) >= 2
    /\ regens[1].sceneId = regens[2].sceneId
    /\ regens[1].frameType = "start"
    /\ regens[2].frameType = "end"
    /\ regens[1].pc = "call"
    /\ regens[2].pc = "done"
    /\ \E k \in DOMAIN scenes :
          /\ scenes[k].id = regens[2].sceneId
          /\ scenes[k].endFrame = <<"regen", 2>>
          /\ scenes[k].startFrame = regens[1].originalFrame

\* ------------------------------------------------------------------ C36

RECURSIVE RecommendationTokens(_)
\* the tokens of the recommendation responses received so far
RecommendationTokens(recs) ==
    IF recs = <<>> THEN 0
    ELSE recs[Len(recs)].tokens
           + RecommendationTokens(SubSeq(recs, 1, Len(recs) - 1))

\* C36: the usage record that generateStoryboardFromPages returns reports
\* the tokens of the decomposition response plus the tokens of every
\* recommendation response, in whatever order the recommendation calls
\* completed.
C36_TokensAllCounted ==
    storyCall.pc = "resolved" =>
        storyCall.tokens = storyCall.decomposeTokens
                             + RecommendationTokens(storyCall.recs)

\* the two recommendation calls of a two-panel result, issued together,
\* have returned with different token counts, and the call has returned
C36_Witness ==
    /\ storyCall.pc = "resolved"
    /\ Len(storyCall.recs) = 2
    /\ storyCall.recs[1].tokens = 3
    /\ storyCall.recs[2].tokens = 5
    /\ storyCall.decomposeTokens = 5
    /\ storyCall.tokens = 13

====
